---- MODULE Spec2Model ----
(***************************************************************************)
(* Model of the builder assembly engine of tbalthazar/pack:                *)
(*   - builder.Builder and its Save orchestration (package builder),       *)
(*   - processOrder / validateBuildpacks (order resolution, validation),   *)
(*   - the buildpack layer rewrite (embedBuildpackTar),                    *)
(*   - NewLifecycle / validateBinaries (builder/lifecycle.go).             *)
(*                                                                         *)
(* Go strings are modelled as sequences of one-character strings, so that  *)
(* concatenation (the "id@version" lookup key), path.Clean and path.Join   *)
(* are computed the way the Go code computes them.  The empty Go string is *)
(* the empty sequence << >>.                                               *)
(***************************************************************************)
EXTENDS Integers, Sequences, FiniteSets, TLC

VARIABLES
    buildpacks,            \* b.metadata.Buildpacks : Seq of [id, version]
    additionalBuildpacks,  \* b.additionalBuildpacks : Seq of Buildpack
    order,                 \* b.order : Seq of [group : Seq of BuildpackRef]
    replaceOrder,          \* b.replaceOrder
    lifecycle,             \* b.lifecycle : NoLifecycle or [descriptor |-> [version]]
    metadataLifecycle,     \* b.metadata.Lifecycle.Version (NilVersion when unset)
    UID, GID, StackID,     \* b.UID, b.GID, b.StackID
    image,                 \* what this builder did to b.image
    saveResult,            \* what the call of Save produced
    atSave,                \* b.order and b.metadata.Lifecycle as Save found them (history)
    lcBlob,                \* the blob handed to NewLifecycle
    lcResult,              \* what NewLifecycle produced
    img,                   \* the image handed to GetBuilder / New: name, env, labels
    newResult                  \* what the call of GetBuilder / New produced

vars == << buildpacks, additionalBuildpacks, order, replaceOrder, lifecycle,
           metadataLifecycle, UID, GID, StackID, image, saveResult,
           atSave, lcBlob, lcResult, img, newResult >>

builderVars == << buildpacks, additionalBuildpacks, order, replaceOrder,
                  lifecycle, metadataLifecycle, UID, GID, StackID, image,
                  saveResult, atSave >>

lifecycleVars == << lcBlob, lcResult >>

constructorVars == << img, newResult >>

(***************************************************************************)
(* Strings and sequences.                                                  *)
(***************************************************************************)
Range(s) == { s[i] : i \in 1..Len(s) }

IsPrefix(p, s) == Len(p) <= Len(s) /\ SubSeq(s, 1, Len(p)) = p

\* All sequences over S of length at most n.
SeqsUpTo(S, n) == UNION { [1..k -> S] : k \in 0..n }

RECURSIVE Concat(_)
Concat(ss) == IF ss = << >> THEN << >> ELSE Head(ss) \o Concat(Tail(ss))

\* Index of the first "/" of p at or after r, Len(p)+1 when there is none.
RECURSIVE ElemEnd(_, _)
ElemEnd(p, r) ==
    IF r > Len(p) \/ p[r] = "/" THEN r ELSE ElemEnd(p, r + 1)

(***************************************************************************)
(* path.Clean of the Go standard library, byte by byte.  out is the        *)
(* lazybuf (its length is out.w), r the read index (1-based here), dotdot  *)
(* the length of the prefix of out that ".." may not remove.               *)
(***************************************************************************)
RECURSIVE CleanBacktrack(_, _, _)
CleanBacktrack(out, w, dotdot) ==
    \* out.w-- ; for out.w > dotdot && out.index(out.w) != '/' { out.w-- }
    IF w > dotdot /\ out[w + 1] # "/"
    THEN CleanBacktrack(out, w - 1, dotdot)
    ELSE SubSeq(out, 1, w)

RECURSIVE CleanLoop(_, _, _, _)
CleanLoop(p, r, out, dotdot) ==
    LET n == Len(p)
        rooted == p[1] = "/"
    IN  IF r > n THEN out
        ELSE IF p[r] = "/"
             THEN CleanLoop(p, r + 1, out, dotdot)              \* empty element
        ELSE IF p[r] = "." /\ (r = n \/ p[r + 1] = "/")
             THEN CleanLoop(p, r + 1, out, dotdot)              \* . element
        ELSE IF p[r] = "." /\ r < n /\ p[r + 1] = "."
                  /\ (r + 1 = n \/ p[r + 2] = "/")
             THEN                                               \* .. element
                IF Len(out) > dotdot
                THEN CleanLoop(p, r + 2,
                               CleanBacktrack(out, Len(out) - 1, dotdot), dotdot)
                ELSE IF ~rooted
                THEN LET o2 == (IF Len(out) > 0 THEN Append(out, "/") ELSE out)
                               \o << ".", "." >>
                     IN  CleanLoop(p, r + 2, o2, Len(o2))
                ELSE CleanLoop(p, r + 2, out, dotdot)
        ELSE                                                    \* real element
            LET o1 == IF (rooted /\ Len(out) # 1) \/ (~rooted /\ Len(out) # 0)
                      THEN Append(out, "/") ELSE out
                e  == ElemEnd(p, r)
            IN  CleanLoop(p, e, o1 \o SubSeq(p, r, e - 1), dotdot)

Clean(p) ==
    IF p = << >> THEN << "." >>
    ELSE LET rooted == p[1] = "/"
             res == IF rooted THEN CleanLoop(p, 2, << "/" >>, 1)
                              ELSE CleanLoop(p, 1, << >>, 0)
         IN  IF res = << >> THEN << "." >> ELSE res

\* path.Join: the non-empty elements joined by "/", then cleaned; "" when
\* every element is empty.
RECURSIVE JoinRaw(_)
JoinRaw(elems) ==
    IF elems = << >> THEN << >>
    ELSE LET rest == JoinRaw(Tail(elems))
         IN  IF Head(elems) = << >> THEN rest
             ELSE IF rest = << >> THEN Head(elems)
             ELSE Head(elems) \o << "/" >> \o rest

Join(elems) ==
    LET raw == JoinRaw(elems) IN IF raw = << >> THEN << >> ELSE Clean(raw)

\* regexp `^[^/]+/([^/]+)$` with FindStringSubmatch: the submatch (the part
\* after the only "/"), or NoMatch.
NoMatch == << "/" >>

BinaryPathMatch(p) ==
    LET slashes == { i \in 1..Len(p) : p[i] = "/" }
    IN  IF Cardinality(slashes) = 1
        THEN LET i == CHOOSE j \in slashes : TRUE
             IN  IF i > 1 /\ i < Len(p) THEN SubSeq(p, i + 1, Len(p))
                 ELSE NoMatch
        ELSE NoMatch

(***************************************************************************)
(* Program constants.                                                      *)
(***************************************************************************)
buildpacksDir == << "/", "b", "u", "i", "l", "d", "p", "a", "c", "k", "s" >>
layersDir     == << "/", "l", "a", "y", "e", "r", "s" >>

workspaceDir  == << "/", "w", "o", "r", "k", "s", "p", "a", "c", "e" >>
platformDir   == << "/", "p", "l", "a", "t", "f", "o", "r", "m" >>
envDirName    == << "e", "n", "v" >>
latestName    == << "l", "a", "t", "e", "s", "t" >>

(***************************************************************************)
(* Semantic versions (github.com/Masterminds/semver).  A *Version is a     *)
(* record; the nil pointer is NilVersion.  pre is the prerelease string.   *)
(***************************************************************************)
Version(maj, min, pat, pre) ==
    [isNil |-> FALSE, major |-> maj, minor |-> min, patch |-> pat, pre |-> pre]

NilVersion == [isNil |-> TRUE, major |-> 0, minor |-> 0, patch |-> 0, pre |-> << >>]

compareSegment(a, b) == IF a < b THEN -1 ELSE IF a > b THEN 1 ELSE 0

\* Version.Compare.  Two different non-empty prereleases are never compared
\* here: the only right-hand side is 0.4.0, which has none.
Compare(v, o) ==
    IF compareSegment(v.major, o.major) # 0 THEN compareSegment(v.major, o.major)
    ELSE IF compareSegment(v.minor, o.minor) # 0 THEN compareSegment(v.minor, o.minor)
    ELSE IF compareSegment(v.patch, o.patch) # 0 THEN compareSegment(v.patch, o.patch)
    ELSE IF v.pre = << >> /\ o.pre = << >> THEN 0
    ELSE IF v.pre = << >> THEN 1
    ELSE IF o.pre = << >> THEN -1
    ELSE 0

LessThan(v, o) == Compare(v, o) < 0

\* semver.MustParse("0.4.0"), the pivot of orderLayer and buildpackLayer.
pivotVersion == Version(0, 4, 0, << >>)

\* lifecycleVersion != nil && lifecycleVersion.LessThan(semver.MustParse("0.4.0"))
isLegacyLifecycle(v) == ~v.isNil /\ LessThan(v, pivotVersion)

(***************************************************************************)
(* Order resolution: processOrder and hasBuildpackWithVersion.             *)
(*   a known buildpack (BuildpackMetadata) is [id, version];               *)
(*   an order is a sequence of [group |-> Seq of [id, version, optional]]. *)
(* processOrder mutates the refs in place, so the order as left behind is  *)
(* returned with the error, also when it fails half way.                   *)
(***************************************************************************)
ErrNil             == "nil"
ErrNoVersions      == "no versions of buildpack were found on the builder"
ErrAmbiguous       == "unable to resolve version: multiple versions - must specify an explicit version"
ErrVersionNotFound == "buildpack with version was not found on the builder"

hasBuildpackWithVersion(bps, version) ==
    \E i \in 1..Len(bps) : bps[i].version = version

matchingBpsOf(bps, id) == SelectSeq(bps, LAMBDA bp : bp.id = id)

RECURSIVE processRefs(_, _, _, _)
processRefs(bps, ord, g, i) ==
    IF g > Len(ord) THEN [err |-> ErrNil, order |-> ord]
    ELSE IF i > Len(ord[g].group) THEN processRefs(bps, ord, g + 1, 1)
    ELSE
        LET bpRef       == ord[g].group[i]
            matchingBps == matchingBpsOf(bps, bpRef.id)
        IN  IF Len(matchingBps) = 0
            THEN [err |-> ErrNoVersions, order |-> ord]
            ELSE IF bpRef.version = << >> /\ Len(matchingBps) > 1
            THEN [err |-> ErrAmbiguous, order |-> ord]
            ELSE
                LET version == IF bpRef.version = << >>
                               THEN matchingBps[1].version
                               ELSE bpRef.version
                    ord2 == [ord EXCEPT ![g].group[i].version = version]
                IN  IF ~hasBuildpackWithVersion(matchingBps, version)
                    THEN [err |-> ErrVersionNotFound, order |-> ord2]
                    ELSE processRefs(bps, ord2, g, i + 1)

processOrder(bps, ord) == processRefs(bps, ord, 1, 1)

(***************************************************************************)
(* Graph/stack validation: validateBuildpacks.                             *)
(*   a Buildpack is [info : [id, version], order, stacks : Seq of stack    *)
(*   ids, blob].  The lookup is keyed by the string id + "@" + version.    *)
(***************************************************************************)
ErrNeither          == "must have either stacks or an order defined"
ErrBoth             == "cannot have both stacks and an order defined"
ErrStack            == "does not support stack"
ErrNotOnBuilder     == "not found on the builder"

lookupKey(id, version) == id \o << "@" >> \o version

bpLookupOf(bps) ==
    { lookupKey(bps[i].info.id, bps[i].info.version) : i \in 1..Len(bps) }

\* Buildpack.SupportsStack: the stack id is one of the declared stacks.
SupportsStack(bp, stackID) == \E i \in 1..Len(bp.stacks) : bp.stacks[i] = stackID

\* The refs of an order in the order the two nested loops visit them.
RECURSIVE orderRefs(_)
orderRefs(ord) ==
    IF ord = << >> THEN << >> ELSE Head(ord).group \o orderRefs(Tail(ord))

\* Mutant of validateOne: the stack check comes before the check for both
\* stacks and an order.
validateOne_StackFirst(stackID, bp, bpLookup) ==
    IF Len(bp.order) = 0 /\ Len(bp.stacks) = 0 THEN ErrNeither
    ELSE IF Len(bp.stacks) >= 1 /\ ~SupportsStack(bp, stackID) THEN ErrStack
    ELSE IF Len(bp.order) >= 1 /\ Len(bp.stacks) >= 1 THEN ErrBoth
    ELSE LET refs == orderRefs(bp.order)
         IN  IF \E k \in 1..Len(refs) :
                      lookupKey(refs[k].id, refs[k].version) \notin bpLookup
             THEN ErrNotOnBuilder
             ELSE ErrNil

validateOne(stackID, bp, bpLookup) ==
    IF Len(bp.order) = 0 /\ Len(bp.stacks) = 0 THEN ErrNeither
    ELSE IF Len(bp.order) >= 1 /\ Len(bp.stacks) >= 1 THEN ErrBoth
    ELSE IF Len(bp.stacks) >= 1 /\ ~SupportsStack(bp, stackID) THEN ErrStack
    ELSE LET refs == orderRefs(bp.order)
         IN  IF \E k \in 1..Len(refs) :
                      lookupKey(refs[k].id, refs[k].version) \notin bpLookup
             THEN ErrNotOnBuilder
             ELSE ErrNil

RECURSIVE validateFrom(_, _, _, _)
validateFrom(stackID, bps, bpLookup, i) ==
    IF i > Len(bps) THEN ErrNil
    ELSE LET e == validateOne(stackID, bps[i], bpLookup)
         IN  IF e # ErrNil THEN e
             ELSE validateFrom(stackID, bps, bpLookup, i + 1)

validateBuildpacks(stackID, bps) ==
    validateFrom(stackID, bps, bpLookupOf(bps), 1)

(***************************************************************************)
(* Layer composition.  A tar header is [name, typeflag, uid, gid,          *)
(* linkname]; a layer is [kind, info, entries, shape, order].  File        *)
(* contents and timestamps are not modelled.                               *)
(***************************************************************************)
Header(name, typeflag, uid, gid) ==
    [name |-> name, typeflag |-> typeflag, uid |-> uid, gid |-> gid,
     linkname |-> << >>]

NoInfo == [id |-> << >>, version |-> << >>]

Layer(kind, info, entries, shape, ord) ==
    [kind |-> kind, info |-> info, entries |-> entries, shape |-> shape,
     order |-> ord]

\* Builder.packOwnedDir / Builder.rootOwnedDir
packOwnedDir(path) == Header(path, "dir", UID, GID)
rootOwnedDir(path) == Header(path, "dir", 0, 0)

\* Builder.defaultDirsLayer
defaultDirsLayer ==
    Layer("dirs", NoInfo,
          << packOwnedDir(workspaceDir), packOwnedDir(layersDir),
             rootOwnedDir(buildpacksDir), rootOwnedDir(platformDir),
             rootOwnedDir(platformDir \o << "/" >> \o envDirName) >>,
          "", << >>)

\* Buildpack.EscapedID: path separators of the id are replaced.
EscapedID(bp) ==
    [i \in 1..Len(bp.info.id) |->
        IF bp.info.id[i] = "/" THEN "_" ELSE bp.info.id[i]]

\* symlinkLatest: the "latest" alias of the version directory.
symlinkLatest(tw, baseTarDir, bp) ==
    Append(tw, [name |-> Join(<< buildpacksDir, EscapedID(bp), latestName >>),
                typeflag |-> "symlink", uid |-> 0, gid |-> 0,
                linkname |-> baseTarDir])

(***************************************************************************)
(* Builder.embedBuildpackTar.  A blob is [openErr, entries, corrupt]:      *)
(* after the listed entries tr.Next returns io.EOF, or an error when       *)
(* corrupt.  openErr says how Open behaves:                                *)
(*   "no"           Open succeeds;                                         *)
(*   "nilReader"    Open returns (nil, err);                               *)
(*   "brokenReader" Open returns err with a reader whose reads fail.       *)
(* The error of a failing Open is not returned (the value of errors.Wrap   *)
(* is dropped) and the code goes on with rc: with a nil rc the deferred    *)
(* rc.Close dereferences nil and the call panics; with a broken reader     *)
(* the first tr.Next fails and that error is returned.                     *)
(***************************************************************************)
embedEntry(header, baseTarDir) ==
    [header EXCEPT !.name = Clean(Join(<< baseTarDir, Clean(header.name) >>)),
                   !.uid = UID, !.gid = GID]

isRootEntry(header) ==
    Clean(header.name) = << "." >> \/ Clean(header.name) = << "/" >>

RECURSIVE embedEntries(_, _, _, _)
embedEntries(tw, entries, i, baseTarDir) ==
    IF i > Len(entries) THEN tw
    ELSE IF isRootEntry(entries[i])
         THEN embedEntries(tw, entries, i + 1, baseTarDir)
         ELSE embedEntries(Append(tw, embedEntry(entries[i], baseTarDir)),
                           entries, i + 1, baseTarDir)

embedBuildpackTar(tw, bp, baseTarDir) ==
    IF bp.blob.openErr = "nilReader" THEN [status |-> "panic", tw |-> tw]
    ELSE IF bp.blob.openErr = "brokenReader" THEN [status |-> "err", tw |-> tw]
    ELSE LET written == embedEntries(tw, bp.blob.entries, 1, baseTarDir)
         IN  IF bp.blob.corrupt
             THEN [status |-> "err", tw |-> written]
             ELSE [status |-> "nil", tw |-> written]

\* Builder.buildpackLayer; lifecycleVersion is b.GetLifecycleVersion() at
\* the time of the call, createFails the failure of os.Create.
buildpackLayer(bp, lifecycleVersion, createFails) ==
    IF createFails THEN [status |-> "err", layer |-> Layer("buildpack", bp.info, << >>, "", << >>)]
    ELSE
        LET baseTarDir == Join(<< buildpacksDir, EscapedID(bp), bp.info.version >>)
            tw0 == << Header(Join(<< buildpacksDir, EscapedID(bp) >>), "dir", 0, 0),
                      Header(baseTarDir, "dir", 0, 0) >>
            emb == embedBuildpackTar(tw0, bp, baseTarDir)
            tw1 == IF isLegacyLifecycle(lifecycleVersion)
                   THEN symlinkLatest(emb.tw, baseTarDir, bp)
                   ELSE emb.tw
        IN  IF emb.status # "nil"
            THEN [status |-> emb.status,
                  layer |-> Layer("buildpack", bp.info, emb.tw, "", << >>)]
            ELSE [status |-> "nil",
                  layer |-> Layer("buildpack", bp.info, tw1, "", << >>)]

\* Builder.orderLayer: the shape of order.toml.
orderLayer(lifecycleVersion, ord) ==
    IF isLegacyLifecycle(lifecycleVersion)
    THEN Layer("order", NoInfo, << >>, "legacy", ord)
    ELSE Layer("order", NoInfo, << >>, "current", ord)

envLayer       == Layer("env", NoInfo, << >>, "", << >>)
lifecycleLayer == Layer("lifecycle", NoInfo, << >>, "", << >>)
stackLayer     == Layer("stack", NoInfo, << >>, "", << >>)

(***************************************************************************)
(* Builder.Save.  The run is threaded through a record st = [image,        *)
(* metaLife, ret]: the image as changed so far, b.metadata.Lifecycle's     *)
(* version, and the outcome (status "running" until Save returns or        *)
(* panics).  fail = [at, i] names the one external failure of the run (a   *)
(* scratch file that cannot be created, an image call that fails).         *)
(***************************************************************************)
NoFail == [at |-> "none", i |-> 0]

FailAt(at) == [at |-> at, i |-> 0]

Returned(at, cause) == [status |-> "error", at |-> at, cause |-> cause]

Running == [status |-> "running", at |-> "", cause |-> ""]

NotSaved == [status |-> "none", at |-> "", cause |-> ""]

Metadata(bps, ord, lifecycleVersion) ==
    [buildpacks |-> bps, groups |-> ord, lifecycle |-> lifecycleVersion]

FreshImage ==
    [layers |-> << >>, labelSet |-> FALSE,
     label |-> Metadata(<< >>, << >>, NilVersion),
     workingDir |-> << >>, saved |-> FALSE]

\* image.AddLayer, then the error check of Save.
AddLayer(st, layer, fails, at) ==
    IF fails THEN [st EXCEPT !.ret = Returned(at, "AddLayer")]
    ELSE [st EXCEPT !.image.layers = Append(@, layer)]

SaveDirs(st, fail) ==
    IF st.ret.status # "running" THEN st
    ELSE IF fail.at = "dirsBuild"
    THEN [st EXCEPT !.ret = Returned("defaultDirsLayer", "io")]
    ELSE AddLayer(st, defaultDirsLayer, fail.at = "dirsAdd",
                  "adding default dirs layer")

SaveEnv(st, fail) ==
    IF st.ret.status # "running" THEN st
    ELSE IF fail.at = "envBuild"
    THEN [st EXCEPT !.ret = Returned("envLayer", "io")]
    ELSE AddLayer(st, envLayer, fail.at = "envAdd", "adding env layer")

\* Mutant of SaveLifecycle: the descriptor of the lifecycle is not copied into
\* the metadata before the later layers read the lifecycle version.
SaveLifecycle_StaleVersion(st, fail) ==
    IF st.ret.status # "running" \/ lifecycle.isNil THEN st
    ELSE IF fail.at = "lifecycleBuild"
    THEN [st EXCEPT !.ret = Returned("lifecycleLayer", "io")]
    ELSE AddLayer(st, lifecycleLayer, fail.at = "lifecycleAdd",
                  "adding lifecycle layer")

SaveLifecycle(st, fail) ==
    IF st.ret.status # "running" \/ lifecycle.isNil THEN st
    ELSE LET st1 == [st EXCEPT !.metaLife = lifecycle.version]
         IN  IF fail.at = "lifecycleBuild"
             THEN [st1 EXCEPT !.ret = Returned("lifecycleLayer", "io")]
             ELSE AddLayer(st1, lifecycleLayer, fail.at = "lifecycleAdd",
                           "adding lifecycle layer")

RECURSIVE SaveBuildpackLayers(_, _, _)
SaveBuildpackLayers(st, i, fail) ==
    IF st.ret.status # "running" \/ i > Len(additionalBuildpacks) THEN st
    ELSE LET built == buildpackLayer(additionalBuildpacks[i], st.metaLife,
                                     fail.at = "bpBuild" /\ fail.i = i)
         IN  IF built.status = "panic"
             THEN [st EXCEPT !.ret = [status |-> "panic", at |-> "buildpackLayer",
                                      cause |-> "nil dereference"]]
             ELSE IF built.status = "err"
             THEN [st EXCEPT !.ret = Returned("buildpackLayer", "io")]
             ELSE SaveBuildpackLayers(
                      AddLayer(st, built.layer, fail.at = "bpAdd" /\ fail.i = i,
                               "adding layer tar for buildpack"),
                      i + 1, fail)

SaveOrder(st, ord, fail) ==
    IF st.ret.status # "running" \/ ~replaceOrder THEN st
    ELSE IF fail.at = "orderBuild"
    THEN [st EXCEPT !.ret = Returned("orderLayer", "io")]
    ELSE AddLayer(st, orderLayer(st.metaLife, ord), fail.at = "orderAdd",
                  "adding order.tar layer")

SaveStack(st, fail) ==
    IF st.ret.status # "running" THEN st
    ELSE IF fail.at = "stackBuild"
    THEN [st EXCEPT !.ret = Returned("stackLayer", "io")]
    ELSE AddLayer(st, stackLayer, fail.at = "stackAdd", "adding stack.tar layer")

SaveLabel(st, ord, fail) ==
    IF st.ret.status # "running" THEN st
    ELSE IF fail.at = "marshal"
    THEN [st EXCEPT !.ret = Returned("failed marshal builder image metadata", "json")]
    ELSE IF fail.at = "setLabel"
    THEN [st EXCEPT !.ret = Returned("failed to set metadata label", "SetLabel")]
    ELSE [st EXCEPT !.image.labelSet = TRUE,
                    !.image.label = Metadata(buildpacks, ord, st.metaLife)]

SaveWorkingDir(st, fail) ==
    IF st.ret.status # "running" THEN st
    ELSE IF fail.at = "setWorkingDir"
    THEN [st EXCEPT !.ret = Returned("failed to set working dir", "SetWorkingDir")]
    ELSE [st EXCEPT !.image.workingDir = layersDir]

SaveCommit(st, fail) ==
    IF st.ret.status # "running" THEN st
    ELSE IF fail.at = "imageSave"
    THEN [st EXCEPT !.ret = Returned("image.Save", "Save")]
    ELSE [st EXCEPT !.image.saved = TRUE,
                    !.ret = [status |-> "ok", at |-> "", cause |-> ""]]

\* The two checks and the scratch directory that come before the first layer.
SaveChecks(st, po, fail) ==
    IF po.err # ErrNil
    THEN [st EXCEPT !.ret = Returned("processing order", po.err)]
    ELSE IF fail.at = "processMetadata"
    THEN [st EXCEPT !.ret = Returned("processing metadata", "processMetadata")]
    ELSE IF validateBuildpacks(StackID, additionalBuildpacks) # ErrNil
    THEN [st EXCEPT !.ret = Returned("validating buildpacks",
                               validateBuildpacks(StackID, additionalBuildpacks))]
    ELSE IF fail.at = "tempDir"
    THEN [st EXCEPT !.ret = Returned("TempDir", "io")]
    ELSE st

\* Mutant of SaveLayers: the stack layer is added before the order layer.
SaveLayers_StackBeforeOrder(st, ord, fail) ==
    SaveOrder(
      SaveStack(
        SaveBuildpackLayers(
          SaveLifecycle(
            SaveEnv(
              SaveDirs(st, fail), fail), fail), 1, fail), fail), ord, fail)

\* The layers, in the order of the statements of Save.
SaveLayers(st, ord, fail) ==
    SaveStack(
      SaveOrder(
        SaveBuildpackLayers(
          SaveLifecycle(
            SaveEnv(
              SaveDirs(st, fail), fail), fail), 1, fail), ord, fail), fail)

\* Mutant of SaveRun: the default dirs layer is added before the two checks.
SaveRun_ChecksAfterDirs(po, fail) ==
    LET st0 == [image |-> image, metaLife |-> metadataLifecycle, ret |-> Running]
        st1 == SaveDirs(st0, fail)
        st2 == SaveChecks(st1, po, fail)
        st3 == SaveStack(SaveOrder(SaveBuildpackLayers(SaveLifecycle(
                   SaveEnv(st2, fail), fail), 1, fail), po.order, fail), fail)
    IN  SaveCommit(SaveWorkingDir(SaveLabel(st3, po.order, fail), fail), fail)

SaveRun(po, fail) ==
    LET st0 == [image |-> image, metaLife |-> metadataLifecycle, ret |-> Running]
    IN  SaveCommit(
          SaveWorkingDir(
            SaveLabel(
              SaveLayers(SaveChecks(st0, po, fail), po.order, fail),
              po.order, fail), fail), fail)

(***************************************************************************)
(* The operations of a Builder.  One builder is saved once: Save consumes  *)
(* it, and the setters act before.                                         *)
(***************************************************************************)
AddBuildpack(bp) ==
    /\ saveResult.status = "none"
    /\ additionalBuildpacks' = Append(additionalBuildpacks, bp)
    /\ buildpacks' = Append(buildpacks, bp.info)
    /\ UNCHANGED << order, replaceOrder, lifecycle, metadataLifecycle, UID, GID,
                    StackID, image, saveResult, atSave, lifecycleVars, constructorVars >>

SetLifecycle(l) ==
    /\ saveResult.status = "none"
    /\ lifecycle' = l
    /\ UNCHANGED << buildpacks, additionalBuildpacks, order, replaceOrder,
                    metadataLifecycle, UID, GID, StackID, image, saveResult,
                    atSave, lifecycleVars, constructorVars >>

SetOrder(o) ==
    /\ saveResult.status = "none"
    /\ order' = o
    /\ replaceOrder' = TRUE
    /\ UNCHANGED << buildpacks, additionalBuildpacks, lifecycle,
                    metadataLifecycle, UID, GID, StackID, image, saveResult,
                    atSave, lifecycleVars, constructorVars >>

Save(fail) ==
    /\ saveResult.status = "none"
    /\ LET po == processOrder(buildpacks, order)
           st == SaveRun(po, fail)
       IN  /\ order' = po.order
           /\ atSave' = [order |-> order, lifecycleVersion |-> metadataLifecycle]
           /\ image' = st.image
           /\ metadataLifecycle' = st.metaLife
           /\ saveResult' = st.ret
    /\ UNCHANGED << buildpacks, additionalBuildpacks, replaceOrder, lifecycle,
                    UID, GID, StackID, lifecycleVars, constructorVars >>

(***************************************************************************)
(* Input domains.                                                          *)
(***************************************************************************)
idA  == << "a" >>
idB  == << "b" >>
idM  == << "m" >>
idAB == << "a", "@", "b" >>          \* the id "a@b"
ver1 == << "1" >>
ver2 == << "2" >>
verB1 == << "b", "@", "1" >>         \* the version "b@1"

stackS == << "s" >>
stackT == << "t" >>

UIDs == {1000}
GIDs == {2000}

Info(id, version) == [id |-> id, version |-> version]

Ref(id, version) == [id |-> id, version |-> version, optional |-> FALSE]

Group(refs) == [group |-> refs]

Blob(openErr, entries, corrupt) ==
    [openErr |-> openErr, entries |-> entries, corrupt |-> corrupt]

Buildpack(info, ord, stacks, blob) ==
    [info |-> info, order |-> ord, stacks |-> stacks, blob |-> blob]

NoLifecycle == [isNil |-> TRUE, version |-> NilVersion]

LifecycleOf(version) == [isNil |-> FALSE, version |-> version]

\* an archive with the entries "./c" (a file of root) and "." (its root).
plainBlob ==
    Blob("no", << Header(<< ".", "/", "c" >>, "file", 0, 0),
                  Header(<< "." >>, "dir", 0, 0) >>, FALSE)

(***************************************************************************)
(* Specification Spec: a builder from GetBuilder / New, its setters, Save. *)
(***************************************************************************)
MaxPending == 2

MainBuildpacks ==
    { Buildpack(Info(idA, ver1), << >>, << stackS >>, plainBlob),
      Buildpack(Info(idB, ver1), << >>, << stackS >>,
                Blob("nilReader", << >>, FALSE)),
      Buildpack(Info(idM, ver1), << Group(<< Ref(idA, ver1) >>) >>, << >>,
                plainBlob),
      Buildpack(Info(idB, ver2), << >>, << >>, plainBlob) }

MainOrders ==
    { << >>,
      << Group(<< Ref(idA, << >>) >>) >>,
      << Group(<< Ref(idM, ver1) >>), Group(<< Ref(idB, << >>) >>) >> }

MainVersions ==
    { Version(0, 3, 9, << >>), Version(0, 4, 0, << >>),
      Version(0, 4, 0, << "r", "c" >>), Version(1, 0, 0, << >>) }

MainLifecycles == { LifecycleOf(v) : v \in MainVersions \cup {NilVersion} }

\* What the metadata label of the image held: known buildpacks and order.
MainLoaded ==
    { [buildpacks |-> << >>, order |-> << >>],
      [buildpacks |-> << Info(idA, ver1) >>,
       order |-> << Group(<< Ref(idA, ver1) >>) >>] }

MainLoadedVersions ==
    { NilVersion, Version(0, 3, 9, << >>), Version(0, 4, 0, << >>) }

FailStages ==
    { "processMetadata", "tempDir", "dirsBuild", "dirsAdd", "envBuild",
      "envAdd", "lifecycleBuild", "lifecycleAdd", "orderBuild", "orderAdd",
      "stackBuild", "stackAdd", "marshal", "setLabel", "setWorkingDir",
      "imageSave" }

FailPoints(n) ==
    {NoFail} \cup { FailAt(a) : a \in FailStages }
             \cup { [at |-> a, i |-> k] : a \in {"bpBuild", "bpAdd"}, k \in 1..n }

\* An image value: img.Name(), the two environment variables and the two
\* labels; a variable or label is [present, value], value a Go string.
Unset == [present |-> FALSE, value |-> << >>]

SetTo(value) == [present |-> TRUE, value |-> value]

Image(name, uid, gid, stack, metadata) ==
    [name |-> name, env |-> [uid |-> uid, gid |-> gid],
     labels |-> [stack |-> stack, metadata |-> metadata]]

NotBuilt == [op |-> "none", status |-> "none", err |-> "", fail |-> "none",
             nameBefore |-> << >>, target |-> << >>]

NoConstructorCall ==
    /\ img = Image(<< >>, Unset, Unset, Unset, Unset)
    /\ newResult = NotBuilt

NoLifecycleCall ==
    /\ lcBlob = Blob("no", << >>, FALSE)
    /\ lcResult = [status |-> "none", err |-> "", missing |-> << >>,
                   descriptor |-> [version |-> NilVersion, platform |-> << >>,
                                   buildpack |-> << >>]]

\* GetBuilder / New over an image that carries the loaded metadata.
BuilderFrom(loaded, version) ==
    /\ buildpacks = loaded.buildpacks
    /\ order = loaded.order
    /\ metadataLifecycle = version
    /\ additionalBuildpacks = << >>
    /\ replaceOrder = FALSE
    /\ lifecycle = NoLifecycle
    /\ image = FreshImage
    /\ saveResult = NotSaved
    /\ atSave = [order |-> << >>, lifecycleVersion |-> NilVersion]

Init ==
    /\ \E loaded \in MainLoaded, v \in MainLoadedVersions : BuilderFrom(loaded, v)
    /\ UID \in UIDs /\ GID \in GIDs /\ StackID = stackS
    /\ NoLifecycleCall
    /\ NoConstructorCall

DoAddBuildpack ==
    /\ Len(additionalBuildpacks) < MaxPending
    /\ \E bp \in MainBuildpacks : AddBuildpack(bp)

DoSetLifecycle == \E l \in MainLifecycles : SetLifecycle(l)

DoSetOrder == \E o \in MainOrders : SetOrder(o)

DoSave == \E fail \in FailPoints(MaxPending) : Save(fail)

Next == DoAddBuildpack \/ DoSetLifecycle \/ DoSetOrder \/ DoSave

Spec == Init /\ [][Next]_vars

(***************************************************************************)
(* Claims checked under Spec.                                              *)
(***************************************************************************)
SaveDone == saveResult.status # "none"

\* The layers the image received, as (kind, buildpack identity) pairs.
AddedLayers ==
    [i \in 1..Len(image.layers) |->
        [kind |-> image.layers[i].kind, info |-> image.layers[i].info]]

\* The fixed sequence of the layers of a Save of this builder.
ExpectedLayers ==
    << [kind |-> "dirs", info |-> NoInfo], [kind |-> "env", info |-> NoInfo] >>
    \o (IF lifecycle.isNil THEN << >>
        ELSE << [kind |-> "lifecycle", info |-> NoInfo] >>)
    \o [i \in 1..Len(additionalBuildpacks) |->
           [kind |-> "buildpack", info |-> additionalBuildpacks[i].info]]
    \o (IF replaceOrder THEN << [kind |-> "order", info |-> NoInfo] >> ELSE << >>)
    \o << [kind |-> "stack", info |-> NoInfo] >>

\* C6: a successful Save has added exactly dirs, env, lifecycle (iff one was
\* set), one layer per pending buildpack in registration order, order (iff
\* SetOrder was called) and stack, in this sequence; a failing Save has added
\* a prefix of it, and nothing is added outside a Save.
C6_LayerSequence ==
    /\ saveResult.status = "ok" => AddedLayers = ExpectedLayers
    /\ saveResult.status \in {"error", "panic"} =>
           IsPrefix(AddedLayers, ExpectedLayers)
    /\ saveResult.status = "none" => AddedLayers = << >>

C6_Witness ==
    /\ saveResult.status = "ok"
    /\ ~lifecycle.isNil
    /\ replaceOrder
    /\ Len(additionalBuildpacks) = 2
    /\ additionalBuildpacks[1].info # additionalBuildpacks[2].info
    /\ Len(image.layers) = 7

\* C7: Save has committed the image only after every layer of the sequence,
\* the metadata label and the working directory /layers; every Save that does
\* not succeed returns an error and has not committed.
C7_CommitLast ==
    SaveDone =>
        /\ saveResult.status \in {"ok", "error"}
        /\ image.saved <=> saveResult.status = "ok"
        /\ image.saved =>
               /\ AddedLayers = ExpectedLayers
               /\ image.labelSet
               /\ image.workingDir = layersDir

\* C8: when processOrder or validateBuildpacks fails, Save returns that error
\* and the image has received no layer, no label, no working directory and
\* no commit.
C8_ChecksBeforeLayers ==
    saveResult.at \in {"processing order", "validating buildpacks"} =>
        /\ saveResult.status = "error"
        /\ saveResult.cause \in {ErrNoVersions, ErrAmbiguous, ErrVersionNotFound,
                                 ErrNeither, ErrBoth, ErrStack, ErrNotOnBuilder}
        /\ image = FreshImage

C8_Witness ==
    /\ saveResult.at = "validating buildpacks"
    /\ Len(additionalBuildpacks) = 2
    /\ ~lifecycle.isNil
    /\ replaceOrder

\* The lifecycle version the layers of this Save are composed for: the
\* descriptor version of the lifecycle set on the builder, else the version
\* recorded in the loaded metadata.
SaveLifecycleVersion ==
    IF lifecycle.isNil THEN atSave.lifecycleVersion ELSE lifecycle.version

\* strictly older than 0.4.0 in semantic-version order
OlderThanPivot(v) ==
    \/ v.major = 0 /\ v.minor < 4
    \/ v.major = 0 /\ v.minor = 4 /\ v.patch = 0 /\ v.pre # << >>

HasLatestSymlink(layer) ==
    \E k \in 1..Len(layer.entries) : layer.entries[k].typeflag = "symlink"

\* C10: in one Save the order document is legacy and every buildpack layer
\* has the "latest" symlink when the lifecycle version is older than 0.4.0;
\* the document is current and no layer has the symlink when it is 0.4.0 or
\* newer; the version is that of the lifecycle set on the builder when there
\* is one.
C10_VersionPivot ==
    (SaveDone /\ ~SaveLifecycleVersion.isNil) =>
        \A k \in 1..Len(image.layers) :
            LET layer == image.layers[k]
            IN  /\ layer.kind = "order" =>
                     layer.shape = IF OlderThanPivot(SaveLifecycleVersion)
                                   THEN "legacy" ELSE "current"
                /\ layer.kind = "buildpack" =>
                     (HasLatestSymlink(layer) <=> OlderThanPivot(SaveLifecycleVersion))

C10_Witness ==
    /\ saveResult.status = "ok"
    /\ ~lifecycle.isNil
    /\ lifecycle.version = Version(0, 3, 9, << >>)
    /\ atSave.lifecycleVersion = Version(0, 4, 0, << >>)
    /\ \E k \in 1..Len(image.layers) :
           image.layers[k].kind = "order" /\ image.layers[k].shape = "legacy"
    /\ \E k \in 1..Len(image.layers) :
           image.layers[k].kind = "buildpack" /\ HasLatestSymlink(image.layers[k])

\* The layers Save adds before the first buildpack layer.
LayersBeforeBuildpacks == IF lifecycle.isNil THEN 2 ELSE 3

\* Save got as far as the layer of the pending buildpack at index i.
ReachedBuildpack(i) ==
    /\ SaveDone
    /\ i \in 1..Len(additionalBuildpacks)
    /\ Len(image.layers) >= LayersBeforeBuildpacks + i - 1

\* C12: when Save reaches a pending buildpack whose blob cannot be opened,
\* Save returns an error from building that buildpack layer, the image has
\* received no layer for that buildpack and none after it, and the image has
\* not been committed.
C12_OpenFailureReturned ==
    \A i \in 1..Len(additionalBuildpacks) :
        (ReachedBuildpack(i) /\ additionalBuildpacks[i].blob.openErr # "no") =>
            /\ saveResult.status = "error"
            /\ saveResult.at = "buildpackLayer"
            /\ Len(image.layers) = LayersBeforeBuildpacks + i - 1
            /\ ~image.saved

(***************************************************************************)
(* Specification SpecOrder: order resolution.  The builder is loaded with  *)
(* any list of known buildpacks and any order within the bounds, may get   *)
(* one more buildpack, and is saved.                                       *)
(***************************************************************************)
MaxKnown == 2
MaxGroupLen == 2

OrderKnownInfos == { Info(idA, ver1), Info(idA, ver2), Info(idB, ver1) }

OrderRefDomain == { Ref(id, v) : id \in {idA, idB}, v \in {<< >>, ver1, ver2} }

OrderDomain ==
    { << Group(g) >> : g \in SeqsUpTo(OrderRefDomain, MaxGroupLen) }
    \cup { << Group(<< r1 >>), Group(<< r2 >>) >> :
             r1 \in OrderRefDomain, r2 \in OrderRefDomain }
    \cup { << >> }

\* buildpacks to register; the second one carries no version.
OrderAddable ==
    { Buildpack(Info(idA, ver1), << >>, << stackS >>, plainBlob),
      Buildpack(Info(idB, << >>), << >>, << stackS >>, plainBlob) }

InitOrder ==
    /\ \E ks \in SeqsUpTo(OrderKnownInfos, MaxKnown), o \in OrderDomain :
           BuilderFrom([buildpacks |-> ks, order |-> o], NilVersion)
    /\ UID \in UIDs /\ GID \in GIDs /\ StackID = stackS
    /\ NoLifecycleCall
    /\ NoConstructorCall

AddBuildpackToKnown ==
    /\ Len(additionalBuildpacks) < 1
    /\ \E bp \in OrderAddable : AddBuildpack(bp)

SaveResolved == \E fail \in {NoFail, FailAt("imageSave")} : Save(fail)

NextOrder == AddBuildpackToKnown \/ SaveResolved

SpecOrder == InitOrder /\ [][NextOrder]_vars

\* The versions the builder knows of a buildpack id.
KnownVersions(id) ==
    { buildpacks[i].version : i \in { j \in 1..Len(buildpacks) : buildpacks[j].id = id } }

\* What the claim says of one ref, from the versions known of its id.
RefCase(ref) ==
    IF KnownVersions(ref.id) = {} THEN "not found"
    ELSE IF ref.version = << >>
         THEN IF Cardinality(KnownVersions(ref.id)) = 1 THEN "fill" ELSE "ambiguous"
    ELSE IF ref.version \notin KnownVersions(ref.id) THEN "version not found"
    ELSE "keep"

ResolvedVersion(ref) ==
    IF ref.version = << >> THEN CHOOSE v \in KnownVersions(ref.id) : TRUE
    ELSE ref.version

ProcessOrderFailed == saveResult.at = "processing order"

ProcessOrderPassed == SaveDone /\ ~ProcessOrderFailed

\* C2: processOrder treats every ref by the versions known of its id: none:
\* not-found error; empty ref version and one known version: the version is
\* filled in; empty ref version and two or more: ambiguity error; explicit
\* version not known: not-found error.  The first ref that is in an error
\* case ends the resolution with its error; the refs before it are resolved.
C2_ResolutionByKnownVersions ==
    SaveDone =>
        LET before == orderRefs(atSave.order)
            after  == orderRefs(order)
            failing == { k \in 1..Len(before) :
                           RefCase(before[k]) \in {"not found", "ambiguous",
                                                   "version not found"} }
            first == CHOOSE k \in failing : \A j \in failing : k <= j
            last == IF failing = {} THEN Len(before) ELSE first - 1
        IN  /\ Len(after) = Len(before)
            /\ \A k \in 1..last : after[k].version = ResolvedVersion(before[k])
            /\ failing = {} => ProcessOrderPassed
            /\ failing # {} =>
                 /\ ProcessOrderFailed
                 /\ RefCase(before[first]) = "ambiguous" =>
                        saveResult.cause = ErrAmbiguous
                 /\ RefCase(before[first]) \in {"not found", "version not found"} =>
                        saveResult.cause \in {ErrNoVersions, ErrVersionNotFound}

KnownPairs == Range(buildpacks)

\* C3: after a successful processOrder every ref of the order has a
\* non-empty version and its (id, version) is that of a known buildpack.
C3_ResolvedNonEmptyAndKnown ==
    ProcessOrderPassed =>
        \A k \in 1..Len(orderRefs(order)) :
            LET ref == orderRefs(order)[k]
            IN  /\ ref.version # << >>
                /\ Info(ref.id, ref.version) \in KnownPairs

\* What processOrder does guarantee: after a success the (id, version) of
\* every ref of the order is that of a known buildpack, and its version is
\* empty only when a known buildpack of that id has an empty version.
ResolvedRefsAreKnown ==
    ProcessOrderPassed =>
        \A k \in 1..Len(orderRefs(order)) :
            LET ref == orderRefs(order)[k]
            IN  /\ Info(ref.id, ref.version) \in KnownPairs
                /\ ref.version = << >> => << >> \in KnownVersions(ref.id)

ResolvedRefsWitness ==
    /\ ProcessOrderPassed
    /\ Len(orderRefs(order)) = 2
    /\ \E k \in 1..2 : /\ orderRefs(atSave.order)[k].version = << >>
                       /\ orderRefs(order)[k].version # << >>
    /\ \E k \in 1..2 : orderRefs(atSave.order)[k].version # << >>

(***************************************************************************)
(* Specification SpecValidate: graph/stack validation.  A new builder gets *)
(* buildpacks of every shape (order or not, stacks or not) and is saved.   *)
(***************************************************************************)
MaxEmbedded == 2

ValidateInfos == { Info(idA, ver1), Info(idA, verB1), Info(idM, ver1) }

ValidateOrders ==
    { << >>,
      << Group(<< Ref(idA, ver1) >>) >>,
      << Group(<< Ref(idAB, ver1) >>) >>,
      << Group(<< Ref(idA, ver1) >>), Group(<< Ref(idM, ver1) >>) >> }

ValidateStacks == { << >>, << stackS >>, << stackT >> }

ValidateBuildpacks ==
    { Buildpack(info, o, st, plainBlob) :
        info \in ValidateInfos, o \in ValidateOrders, st \in ValidateStacks }

InitValidate ==
    /\ BuilderFrom([buildpacks |-> << >>, order |-> << >>], NilVersion)
    /\ UID \in UIDs /\ GID \in GIDs /\ StackID = stackS
    /\ NoLifecycleCall
    /\ NoConstructorCall

AddEmbedded ==
    /\ Len(additionalBuildpacks) < MaxEmbedded
    /\ \E bp \in ValidateBuildpacks : AddBuildpack(bp)

SaveValidated == \E fail \in {NoFail, FailAt("processMetadata")} : Save(fail)

NextValidate == AddEmbedded \/ SaveValidated

SpecValidate == InitValidate /\ [][NextValidate]_vars

ValidationRan ==
    SaveDone /\ saveResult.at \notin {"processing order", "processing metadata"}

ValidationFailed == saveResult.at = "validating buildpacks"

ValidationPassed == ValidationRan /\ ~ValidationFailed

Pending == Range(additionalBuildpacks)

HasNeither(bp) == bp.order = << >> /\ bp.stacks = << >>

HasBoth(bp) == bp.order # << >> /\ bp.stacks # << >>

EmbeddedPairs == { bp.info : bp \in Pending }

EmbeddedKeys == { lookupKey(bp.info.id, bp.info.version) : bp \in Pending }

RefsOf(bp) == Range(orderRefs(bp.order))

\* A buildpack the validation is to accept, its refs looked up as
\* (id, version) pairs ...
AcceptableByPair(bp) ==
    /\ ~HasNeither(bp) /\ ~HasBoth(bp)
    /\ bp.stacks # << >> => StackID \in Range(bp.stacks)
    /\ \A r \in RefsOf(bp) : Info(r.id, r.version) \in EmbeddedPairs

\* ... and as id@version keys.
AcceptableByKey(bp) ==
    /\ ~HasNeither(bp) /\ ~HasBoth(bp)
    /\ bp.stacks # << >> => StackID \in Range(bp.stacks)
    /\ \A r \in RefsOf(bp) : lookupKey(r.id, r.version) \in EmbeddedKeys

\* C4: the validation passes iff every buildpack is well formed and, for
\* every ref of every nested order, a buildpack with that id and that
\* version is among the embedded buildpacks.
C4_AcceptedIffPairsEmbedded ==
    ValidationRan =>
        (ValidationPassed <=> \A bp \in Pending : AcceptableByPair(bp))

\* The embedded buildpacks without those whose key is k.
WithoutKey(k) ==
    SelectSeq(additionalBuildpacks,
              LAMBDA bp : lookupKey(bp.info.id, bp.info.version) # k)

\* What validateBuildpacks does guarantee: it passes iff every buildpack is
\* well formed and the key id@version of every ref of every nested order is
\* the key of an embedded buildpack; and taking the buildpacks of a key that
\* a remaining buildpack refers to out of a passing set makes it fail.
AcceptedIffKeysEmbedded ==
    ValidationRan =>
        /\ ValidationPassed <=> \A bp \in Pending : AcceptableByKey(bp)
        /\ ValidationPassed =>
             \A bp \in Pending : \A r \in RefsOf(bp) :
                 LET k == lookupKey(r.id, r.version)
                 IN  lookupKey(bp.info.id, bp.info.version) # k =>
                         validateBuildpacks(StackID, WithoutKey(k)) = ErrNotOnBuilder

AcceptedByKeyWitness ==
    /\ ValidationPassed
    /\ Len(additionalBuildpacks) = 2
    /\ \E bp \in Pending :
          /\ bp.order # << >>
          /\ \E r \in RefsOf(bp) : Info(r.id, r.version) # bp.info

\* C5: a passing validation means that every pending buildpack has exactly
\* one of a nested order and a stack set; a buildpack with neither is
\* rejected with the "must have either" error and one with both with the
\* "cannot have both" error, whatever its stacks, its refs, the stack id and
\* the buildpacks after it are (the buildpacks before it being accepted).
C5_ExactlyOneOfOrderAndStacks ==
    ValidationRan =>
        /\ ValidationPassed =>
             \A bp \in Pending : (bp.order # << >>) # (bp.stacks # << >>)
        /\ (\E bp \in Pending : HasNeither(bp) \/ HasBoth(bp)) => ValidationFailed
        /\ \A i \in 1..Len(additionalBuildpacks) :
             (\A j \in 1..(i - 1) : AcceptableByKey(additionalBuildpacks[j])) =>
                 /\ HasNeither(additionalBuildpacks[i]) =>
                        saveResult.cause = ErrNeither
                 /\ HasBoth(additionalBuildpacks[i]) =>
                        saveResult.cause = ErrBoth

C5_Witness ==
    /\ ValidationFailed
    /\ saveResult.cause = ErrBoth
    /\ Len(additionalBuildpacks) = 2
    /\ AcceptableByKey(additionalBuildpacks[1])
    /\ HasBoth(additionalBuildpacks[2])
    /\ StackID \notin Range(additionalBuildpacks[2].stacks)

(***************************************************************************)
(* Specification SpecEmbed: the rewrite of the entries of a buildpack      *)
(* archive.  A new builder gets one buildpack whose archive holds one      *)
(* entry of any name within the bound, and is saved.                       *)
(***************************************************************************)
MaxNameLen == 4

EmbedNames == SeqsUpTo({"/", ".", "c"}, MaxNameLen)

EmbedOwners == {0, 501}

EmbedIds == { << "y" >>, << "o", "/", "y" >> }

EmbedBlobs ==
    { Blob("no", << Header(n, "file", o, o) >>, c) :
        n \in EmbedNames, o \in EmbedOwners, c \in BOOLEAN }
    \cup { Blob("brokenReader", << >>, FALSE) }

EmbedBuildpacks ==
    { Buildpack(Info(id, ver1), << >>, << stackS >>, blob) :
        id \in EmbedIds, blob \in EmbedBlobs }

InitEmbed ==
    /\ BuilderFrom([buildpacks |-> << >>, order |-> << >>], NilVersion)
    /\ UID \in UIDs /\ GID \in GIDs /\ StackID = stackS
    /\ NoLifecycleCall
    /\ NoConstructorCall

AddArchive ==
    /\ Len(additionalBuildpacks) < 1
    /\ \E bp \in EmbedBuildpacks : AddBuildpack(bp)

SaveEmbedded == \E fail \in {NoFail, FailAt("stackAdd")} : Save(fail)

NextEmbed == AddArchive \/ SaveEmbedded

SpecEmbed == InitEmbed /\ [][NextEmbed]_vars

\* a path without its leading "/"
Relative(p) == IF p # << >> /\ p[1] = "/" THEN Tail(p) ELSE p

IsRootPath(p) == Clean(p) = << "." >> \/ Clean(p) = << "/" >>

\* /buildpacks/{escaped-id}/{version}
VersionDir(bp) ==
    buildpacksDir \o << "/" >> \o EscapedID(bp) \o << "/" >> \o bp.info.version

\* C9: the entries written to a buildpack layer after its two directories
\* are the entries of the archive that are no root entries, in order, each
\* with the path "version directory / cleaned original path" (a path inside
\* the version directory) and with the uid and gid of the builder.
C9_RebasedInsideVersionDir ==
    \A k \in 1..Len(image.layers) :
        image.layers[k].kind = "buildpack" =>
            LET bp == CHOOSE b \in Pending : b.info = image.layers[k].info
                written == SubSeq(image.layers[k].entries, 3,
                                  Len(image.layers[k].entries))
                kept == SelectSeq(bp.blob.entries,
                                  LAMBDA e : ~IsRootPath(e.name))
            IN  /\ Len(written) = Len(kept)
                /\ \A i \in 1..Len(written) :
                     /\ written[i].name =
                          VersionDir(bp) \o << "/" >> \o Relative(Clean(kept[i].name))
                     /\ IsPrefix(VersionDir(bp) \o << "/" >>, written[i].name)
                     /\ written[i].uid = UID
                     /\ written[i].gid = GID

(***************************************************************************)
(* NewLifecycle and validateBinaries (builder/lifecycle.go).  The entries  *)
(* of a lifecycle blob are [name, tomlOK, descriptor]: for the entry       *)
(* lifecycle.toml, whether its content decodes and to which descriptor.    *)
(***************************************************************************)
descriptorPath ==
    << "l", "i", "f", "e", "c", "y", "c", "l", "e", ".", "t", "o", "m", "l" >>

lifecycleBinaries ==
    << << "d", "e", "t", "e", "c", "t", "o", "r" >>,
       << "r", "e", "s", "t", "o", "r", "e", "r" >>,
       << "a", "n", "a", "l", "y", "z", "e", "r" >>,
       << "b", "u", "i", "l", "d", "e", "r" >>,
       << "e", "x", "p", "o", "r", "t", "e", "r" >>,
       << "c", "a", "c", "h", "e", "r" >>,
       << "l", "a", "u", "n", "c", "h", "e", "r" >> >>

defaultAPI == << "0", ".", "1" >>

Descriptor(version, platform, buildpack) ==
    [version |-> version, platform |-> platform, buildpack |-> buildpack]

DefaultLifecycleDescriptor == Descriptor(Version(0, 3, 0, << >>), defaultAPI, defaultAPI)

NoDescriptor == Descriptor(NilVersion, << >>, << >>)

LifecycleResult(status, err, missing, descriptor) ==
    [status |-> status, err |-> err, missing |-> missing, descriptor |-> descriptor]

\* archive.ReadTarEntry: the first entry of that path, ErrEntryNotExist at
\* the end of the archive, a read error when the archive breaks off.
ReadTarEntry(blob, entryPath) ==
    LET hits == { i \in 1..Len(blob.entries) : blob.entries[i].name = entryPath }
    IN  IF hits # {}
        THEN [err |-> "nil",
              entry |-> blob.entries[CHOOSE i \in hits : \A j \in hits : i <= j]]
        ELSE [err |-> IF blob.corrupt THEN "read" ELSE "ErrEntryNotExist",
              entry |-> [name |-> << >>, tomlOK |-> FALSE, descriptor |-> NoDescriptor]]

\* the names collected by the loop of validateBinaries
observedHeaders(blob) ==
    { BinaryPathMatch(Clean(blob.entries[i].name)) : i \in 1..Len(blob.entries) }
        \ {NoMatch}

RECURSIVE firstMissing(_, _)
firstMissing(headers, i) ==
    IF i > Len(lifecycleBinaries) THEN << >>
    ELSE IF lifecycleBinaries[i] \notin headers THEN lifecycleBinaries[i]
    ELSE firstMissing(headers, i + 1)

validateBinaries(blob) ==
    IF blob.openErr # "no" THEN [err |-> "create lifecycle blob reader", missing |-> << >>]
    ELSE IF blob.corrupt THEN [err |-> "failed to get next tar entry", missing |-> << >>]
    ELSE LET p == firstMissing(observedHeaders(blob), 1)
         IN  IF p # << >> THEN [err |-> "did not find in tar", missing |-> p]
             ELSE [err |-> "nil", missing |-> << >>]

NewLifecycle(blob) ==
    IF blob.openErr # "no"
    THEN LifecycleResult("error", "open lifecycle blob", << >>, NoDescriptor)
    ELSE LET read == ReadTarEntry(blob, descriptorPath)
         IN  IF read.err = "ErrEntryNotExist"
             THEN LifecycleResult("ok", "nil", << >>, DefaultLifecycleDescriptor)
             ELSE IF read.err # "nil"
             THEN LifecycleResult("error", "decode lifecycle descriptor", << >>, NoDescriptor)
             ELSE IF ~read.entry.tomlOK
             THEN LifecycleResult("error", "decoding descriptor", << >>, NoDescriptor)
             ELSE LET v == validateBinaries(blob)
                  IN  IF v.err # "nil"
                      THEN LifecycleResult("error", "validating binaries: " \o v.err,
                                           v.missing, NoDescriptor)
                      ELSE LifecycleResult("ok", "nil", << >>, read.entry.descriptor)

CallNewLifecycle ==
    /\ lcResult.status = "none"
    /\ lcResult' = NewLifecycle(lcBlob)
    /\ UNCHANGED << lcBlob, builderVars, constructorVars >>

(***************************************************************************)
(* Specification SpecLifecycle: NewLifecycle over lifecycle blobs.  Every  *)
(* required executable is absent or at "top/name"; exporter and launcher   *)
(* may also sit elsewhere.                                                 *)
(***************************************************************************)
lifecycleTops == { << "l", "i", "f", "e", "c", "y", "c", "l", "e" >>, << "x" >> }

PlacementsOf(i) ==
    IF lifecycleBinaries[i] = << "e", "x", "p", "o", "r", "t", "e", "r" >>
    THEN {"absent", "top", "dot", "bare", "deep"}
    ELSE IF lifecycleBinaries[i] = << "l", "a", "u", "n", "c", "h", "e", "r" >>
    THEN {"absent", "top", "deep"}
    ELSE {"absent", "top"}

BinaryEntry(name) == [name |-> name, tomlOK |-> FALSE, descriptor |-> NoDescriptor]

PlacedEntry(top, name, placement) ==
    CASE placement = "absent" -> << >>
      [] placement = "top"    -> << BinaryEntry(top \o << "/" >> \o name) >>
      [] placement = "dot"    -> << BinaryEntry(<< ".", "/" >> \o top \o << "/" >> \o name) >>
      [] placement = "bare"   -> << BinaryEntry(name) >>
      [] placement = "deep"   -> << BinaryEntry(top \o << "/", "b", "/" >> \o name) >>

DescriptorEntries ==
    { << >>,
      << [name |-> descriptorPath, tomlOK |-> TRUE,
          descriptor |-> Descriptor(Version(0, 4, 0, << >>),
                                    << "0", ".", "2" >>, << "0", ".", "2" >>)] >>,
      << [name |-> descriptorPath, tomlOK |-> FALSE, descriptor |-> NoDescriptor] >> }

LifecycleBlobs ==
    { Blob("no",
           d \o Concat([i \in 1..Len(lifecycleBinaries) |->
                          PlacedEntry(top, lifecycleBinaries[i], pl[i])]),
           c) :
        d \in DescriptorEntries, top \in lifecycleTops, c \in BOOLEAN,
        pl \in { f \in [1..Len(lifecycleBinaries) ->
                          {"absent", "top", "dot", "bare", "deep"}] :
                   \A i \in 1..Len(lifecycleBinaries) : f[i] \in PlacementsOf(i) } }
    \cup { Blob("nilReader", << >>, FALSE) }

InitLifecycle ==
    /\ BuilderFrom([buildpacks |-> << >>, order |-> << >>], NilVersion)
    /\ UID \in UIDs /\ GID \in GIDs /\ StackID = stackS
    /\ lcBlob \in LifecycleBlobs
    /\ lcResult = LifecycleResult("none", "", << >>, NoDescriptor)
    /\ NoConstructorCall

NextLifecycle == CallNewLifecycle

SpecLifecycle == InitLifecycle /\ [][NextLifecycle]_vars

\* name is the filename of an entry "one directory / one filename".
ObservedAsBinary(blob, name) ==
    \E i \in 1..Len(blob.entries) :
        LET p == Clean(blob.entries[i].name)
            d == Len(p) - Len(name) - 1         \* length of the directory part
        IN  /\ d >= 1
            /\ SubSeq(p, d + 1, Len(p)) = << "/" >> \o name
            /\ "/" \notin Range(SubSeq(p, 1, d))

HasDescriptorEntry(blob) ==
    \E i \in 1..Len(blob.entries) : blob.entries[i].name = descriptorPath

\* C1: NewLifecycle fails for every blob in which one of the seven required
\* executables is not the filename of an entry "directory/filename", with
\* or without a lifecycle.toml entry; with all seven present and no
\* lifecycle.toml it succeeds with the default descriptor.
C1_RequiredBinaries ==
    lcResult.status # "none" =>
        /\ (\E i \in 1..Len(lifecycleBinaries) :
               ~ObservedAsBinary(lcBlob, lifecycleBinaries[i]))
             => lcResult.status = "error"
        /\ ( /\ \A i \in 1..Len(lifecycleBinaries) :
                   ObservedAsBinary(lcBlob, lifecycleBinaries[i])
             /\ ~HasDescriptorEntry(lcBlob)
             /\ lcBlob.openErr = "no" /\ ~lcBlob.corrupt )
             => /\ lcResult.status = "ok"
                /\ lcResult.descriptor = DefaultLifecycleDescriptor

(***************************************************************************)
(* GetBuilder and New: the two ways a Builder is made from an image.       *)
(* img.Env and img.Label give the empty string for a name that is not set; *)
(* either call may also fail (fail names the call that does).              *)
(***************************************************************************)
ErrReadEnv == "reading builder env variables"
ErrMissingUID == "image missing required env var CNB_USER_ID"
ErrMissingGID == "image missing required env var CNB_GROUP_ID"
ErrParseUID == "failed to parse CNB_USER_ID, value should be an integer"
ErrParseGID == "failed to parse CNB_GROUP_ID, value should be an integer"
ErrGetStackLabel == "get label io.buildpacks.stack.id from image"
ErrMissingStackLabel == "image missing label io.buildpacks.stack.id"
ErrGetMetadataLabel == "get label io.buildpacks.builder.metadata from image"
ErrMissingMetadataLabel ==
    "builder missing label io.buildpacks.builder.metadata -- try recreating builder"
ErrParseMetadata == "failed to parse metadata for builder"

\* img.Env(name) / img.Label(name): the value, "" when not set.
ValueOf(entry) == IF entry.present THEN entry.value ELSE << >>

digits == << "0", "1", "2", "3", "4", "5", "6", "7", "8", "9" >>

isDigit(c) == \E d \in 1..Len(digits) : digits[d] = c

digitValue(c) == (CHOOSE d \in 1..Len(digits) : digits[d] = c) - 1

RECURSIVE digitsValue(_, _)
digitsValue(str, acc) ==
    IF str = << >> THEN acc
    ELSE digitsValue(Tail(str), acc * 10 + digitValue(Head(str)))

\* strconv.Atoi on strings short enough for its fast path (fewer than 10
\* bytes with a 32-bit int, 19 with a 64-bit one, so nothing overflows): an
\* optional sign, then at least one byte, all of them decimal digits.
Atoi(str) ==
    LET signed == str # << >> /\ Head(str) \in {"+", "-"}
        body == IF signed THEN Tail(str) ELSE str
    IN  IF str = << >> \/ body = << >> \/ \E k \in 1..Len(body) : ~isDigit(body[k])
        THEN [ok |-> FALSE, value |-> 0]
        ELSE [ok |-> TRUE,
              value |-> IF Head(str) = "-"
                        THEN 0 - digitsValue(body, 0) ELSE digitsValue(body, 0)]

IDs(uid, gid, err) == [uid |-> uid, gid |-> gid, err |-> err]

userAndGroupIDs(im, fail) ==
    LET sUID == ValueOf(im.env.uid)
        sGID == ValueOf(im.env.gid)
    IN  IF fail = "envUID" THEN IDs(0, 0, ErrReadEnv)
        ELSE IF sUID = << >> THEN IDs(0, 0, ErrMissingUID)
        ELSE IF fail = "envGID" THEN IDs(0, 0, ErrReadEnv)
        ELSE IF sGID = << >> THEN IDs(0, 0, ErrMissingGID)
        ELSE IF ~Atoi(sUID).ok THEN IDs(0, 0, ErrParseUID)
        ELSE IF ~Atoi(sGID).ok THEN IDs(0, 0, ErrParseGID)
        ELSE IDs(Atoi(sUID).value, Atoi(sGID).value, "")

\* The metadata documents of the model and their JSON text.
EmptyMetadata == Metadata(<< >>, << >>, NilVersion)

emptyDocText == << "{", "}" >>

oneBuildpackDocText ==
    << "{", "\"", "b", "u", "i", "l", "d", "p", "a", "c", "k", "s", "\"", ":", "[", "{", "\"", "i", "d", "\"", ":", "\"", "a", "\"", ",", "\"", "v", "e", "r", "s", "i", "o", "n", "\"", ":", "\"", "1", "\"", "}", "]", "}" >>

oneBuildpackMetadata == Metadata(<< Info(idA, ver1) >>, << >>, NilVersion)

truncatedDocText == << "{" >>

\* json.Unmarshal([]byte(label), &metadata) on the label texts of the model;
\* any other text of the model, the empty one included, is not a JSON value.
unmarshalMetadata(label) ==
    IF label = emptyDocText THEN [ok |-> TRUE, metadata |-> EmptyMetadata]
    ELSE IF label = oneBuildpackDocText
    THEN [ok |-> TRUE, metadata |-> oneBuildpackMetadata]
    ELSE [ok |-> FALSE, metadata |-> EmptyMetadata]

\* What a constructor returns: the error, or the fields of the Builder, and
\* the image as the call left it.
Failed(im, err) ==
    [status |-> "error", err |-> err, image |-> im, uid |-> 0, gid |-> 0,
     stackID |-> << >>, metadata |-> EmptyMetadata]

Made(im, ids, stackID, metadata) ==
    [status |-> "ok", err |-> "", image |-> im, uid |-> ids.uid,
     gid |-> ids.gid, stackID |-> stackID, metadata |-> metadata]

GetBuilderRun(im, fail) ==
    LET ids == userAndGroupIDs(im, fail)
        stackID == ValueOf(im.labels.stack)
        label == ValueOf(im.labels.metadata)
        parsed == unmarshalMetadata(label)
    IN  IF ids.err # "" THEN Failed(im, ids.err)
        ELSE IF fail = "stackLabel" THEN Failed(im, ErrGetStackLabel)
        ELSE IF stackID = << >> THEN Failed(im, ErrMissingStackLabel)
        ELSE IF fail = "metadataLabel" THEN Failed(im, ErrGetMetadataLabel)
        ELSE IF label = << >> THEN Failed(im, ErrMissingMetadataLabel)
        ELSE IF ~parsed.ok THEN Failed(im, ErrParseMetadata)
        ELSE Made(im, ids, stackID, parsed.metadata)

\* Mutant of NewRun: the image is renamed before the checks.
NewRun_RenameFirst(im, name, fail) ==
    LET renamed == [im EXCEPT !.name = name]
        ids == userAndGroupIDs(im, fail)
        stackID == ValueOf(im.labels.stack)
        read == ValueOf(im.labels.metadata)
        label == IF read = << >> THEN emptyDocText ELSE read
        parsed == unmarshalMetadata(label)
    IN  IF ids.err # "" THEN Failed(renamed, ids.err)
        ELSE IF fail = "stackLabel" THEN Failed(renamed, ErrGetStackLabel)
        ELSE IF stackID = << >> THEN Failed(renamed, ErrMissingStackLabel)
        ELSE IF fail = "metadataLabel" THEN Failed(renamed, ErrGetMetadataLabel)
        ELSE IF ~parsed.ok THEN Failed(renamed, ErrParseMetadata)
        ELSE Made(renamed, ids, stackID, parsed.metadata)

NewRun(im, name, fail) ==
    LET ids == userAndGroupIDs(im, fail)
        stackID == ValueOf(im.labels.stack)
        read == ValueOf(im.labels.metadata)
        label == IF read = << >> THEN emptyDocText ELSE read
        parsed == unmarshalMetadata(label)
    IN  IF ids.err # "" THEN Failed(im, ids.err)
        ELSE IF fail = "stackLabel" THEN Failed(im, ErrGetStackLabel)
        ELSE IF stackID = << >> THEN Failed(im, ErrMissingStackLabel)
        ELSE IF fail = "metadataLabel" THEN Failed(im, ErrGetMetadataLabel)
        ELSE IF ~parsed.ok THEN Failed(im, ErrParseMetadata)
        ELSE Made([im EXCEPT !.name = name], ids, stackID, parsed.metadata)

\* The Builder of a finished constructor call, written to the builder state.
Constructed(op, made, name, fail) ==
    /\ newResult.status = "none"
    /\ newResult' = [op |-> op, status |-> made.status, err |-> made.err,
                     fail |-> fail, nameBefore |-> img.name, target |-> name]
    /\ img' = made.image
    /\ buildpacks' = made.metadata.buildpacks
    /\ order' = made.metadata.groups
    /\ metadataLifecycle' = made.metadata.lifecycle
    /\ UID' = made.uid
    /\ GID' = made.gid
    /\ StackID' = made.stackID
    /\ UNCHANGED << additionalBuildpacks, replaceOrder, lifecycle, image,
                    saveResult, atSave, lifecycleVars >>

GetBuilder(fail) == Constructed("GetBuilder", GetBuilderRun(img, fail), << >>, fail)

New(name, fail) == Constructed("New", NewRun(img, name, fail), name, fail)

(***************************************************************************)
(* Specification SpecConstruct: an image with any environment and labels   *)
(* within the bounds is handed to GetBuilder or to New.                    *)
(***************************************************************************)
MaxEnvLen == 2

EnvChars == {"7", "-", "x"}

EnvValues == {Unset} \cup { SetTo(v) : v \in SeqsUpTo(EnvChars, MaxEnvLen) }

StackLabels == { Unset, SetTo(<< >>), SetTo(stackS) }

MetadataLabels ==
    { Unset, SetTo(<< >>), SetTo(emptyDocText), SetTo(oneBuildpackDocText),
      SetTo(truncatedDocText) }

baseName == << "b" >>

targetName == << "t" >>

ConstructFails == {"none", "envUID", "envGID", "stackLabel", "metadataLabel"}

InitConstruct ==
    /\ BuilderFrom([buildpacks |-> << >>, order |-> << >>], NilVersion)
    /\ UID = 0 /\ GID = 0 /\ StackID = << >>
    /\ NoLifecycleCall
    /\ \E uid \in EnvValues, gid \in EnvValues, stack \in StackLabels,
          metadata \in MetadataLabels :
           img = Image(baseName, uid, gid, stack, metadata)
    /\ newResult = NotBuilt

CallGetBuilder == \E fail \in ConstructFails : GetBuilder(fail)

CallNew == \E fail \in ConstructFails : New(targetName, fail)

NextConstruct == CallGetBuilder \/ CallNew

SpecConstruct == InitConstruct /\ [][NextConstruct]_vars

\* absent, or present with the empty string as its value
Missing(entry) == ~entry.present \/ entry.value = << >>

\* the text of an integer: an optional sign and one or more decimal digits
IsIntegerText(str) ==
    LET body == IF str # << >> /\ str[1] \in {"+", "-"}
                THEN SubSeq(str, 2, Len(str)) ELSE str
    IN  /\ Len(body) > 0
        /\ \A k \in 1..Len(body) :
               body[k] \in {"0", "1", "2", "3", "4", "5", "6", "7", "8", "9"}

BadEnv(entry) == Missing(entry) \/ ~IsIntegerText(entry.value)

\* Nothing stands in the way of the constructor but the metadata label.
OnlyMetadataMissing ==
    /\ Missing(img.labels.metadata)
    /\ ~Missing(img.labels.stack)
    /\ ~BadEnv(img.env.uid) /\ ~BadEnv(img.env.gid)
    /\ newResult.fail = "none"

\* C11: GetBuilder fails when the stack-id label or the metadata label is
\* absent or empty, with the "try recreating builder" error when only the
\* metadata label is; New fails when the stack-id label is absent or empty
\* and, when only the metadata label is, succeeds with an empty metadata
\* document; both fail when CNB_USER_ID or CNB_GROUP_ID is absent or not an
\* integer; New leaves the image with the target name when it succeeds and
\* with its former name when it fails.
C11_ConstructorFailures ==
    newResult.status # "none" =>
        /\ (BadEnv(img.env.uid) \/ BadEnv(img.env.gid)) => newResult.status = "error"
        /\ Missing(img.labels.stack) => newResult.status = "error"
        /\ newResult.op = "GetBuilder" =>
               /\ Missing(img.labels.metadata) => newResult.status = "error"
               /\ OnlyMetadataMissing => newResult.err = ErrMissingMetadataLabel
        /\ newResult.op = "New" =>
               /\ OnlyMetadataMissing =>
                      /\ newResult.status = "ok"
                      /\ buildpacks = << >> /\ order = << >>
                      /\ metadataLifecycle = NilVersion
               /\ img.name = IF newResult.status = "ok"
                             THEN newResult.target ELSE newResult.nameBefore

C11_Witness ==
    /\ newResult.op = "New"
    /\ newResult.status = "ok"
    /\ ~img.labels.metadata.present
    /\ img.name = targetName
    /\ newResult.nameBefore = baseName
    /\ UID = 77 /\ GID = 0 - 7

====
